---- MODULE Spec2Model ----
(***************************************************************************)
(* build.py of Doug's Dharma Video Index: one run reads the data file,     *)
(* compacts it, counts topics and suttas, reads the template, replaces the *)
(* placeholder tokens, writes index.html and prints a report.              *)
(*                                                                         *)
(* Text is a sequence of symbols.  A symbol is one character, except that  *)
(* an occurrence of a placeholder token and a month name are one symbol    *)
(* each (no token is a substring of another, and no replacement value can  *)
(* complete a token, so str.replace on characters and on symbols agree).   *)
(***************************************************************************)
EXTENDS Integers, Sequences, FiniteSets, TLC

VARIABLES
    dataFile,       \* dougs_dharma_index.json on disk: [kind, records]
    templateFile,   \* template.html on disk: [exists, text]
    indexFile,      \* index.html on disk: [exists, text]
    pc,             \* position of the running script
    exitCode,       \* process exit status; NoExit while it runs
    console,        \* lines printed so far in this run (message tags)
    data,           \* the parsed list of records
    compact,        \* the list of compact records
    compact_json,   \* json.dumps(compact)
    all_topics,     \* set of topic strings
    all_suttas,     \* set of sutta ids
    html,           \* template text being rewritten
    dates,          \* sorted non-empty dates
    earliest,       \* "Month YYYY" of dates[0], Unbound until assigned
    latest,         \* "Month YYYY" of dates[-1], Unbound until assigned
    runs,           \* number of invocations of the script so far
    indexAtStart,   \* index.html as it was when the current run started
    written,        \* the current run has executed the write of Step 6
    prevOut         \* what the previous runs wrote: [written, text]

vars == <<dataFile, templateFile, indexFile, pc, exitCode, console, data,
          compact, compact_json, all_topics, all_suttas, html, dates,
          earliest, latest, runs, indexAtStart, written, prevOut>>

(***************************************************************************)
(* Bounds of the explored inputs.                                          *)
(***************************************************************************)
MaxRecords == 2
MaxTemplateLen == 2
MaxRuns == 2

(***************************************************************************)
(* Text helpers.                                                           *)
(***************************************************************************)
RECURSIVE Join(_, _)
\* sep.join(ts), halving the list so that long texts nest shallowly
Join(ts, sep) ==
    IF Len(ts) = 0 THEN <<>>
    ELSE IF Len(ts) = 1 THEN ts[1]
    ELSE LET h == Len(ts) \div 2
         IN Join(SubSeq(ts, 1, h), sep) \o sep \o Join(SubSeq(ts, h + 1, Len(ts)), sep)

\* text.replace(old, new): every occurrence, left to right, in a single pass
Replace(text, old, new) ==
    Join([i \in 1..Len(text) |-> IF text[i] = old THEN new ELSE <<text[i]>>], <<>>)

Digit == <<"0", "1", "2", "3", "4", "5", "6", "7", "8", "9">>

\* str(n) for n >= 0
RECURSIVE Str(_)
Str(n) == IF n < 10 THEN <<Digit[n + 1]>> ELSE Str(n \div 10) \o <<Digit[(n % 10) + 1]>>

\* The five placeholder tokens of the template.
PLACEHOLDER_DATA == "PLACEHOLDER_DATA"
PLACEHOLDER_VIDEO_COUNT == "PLACEHOLDER_VIDEO_COUNT"
PLACEHOLDER_TOPIC_COUNT == "PLACEHOLDER_TOPIC_COUNT"
PLACEHOLDER_SUTTA_COUNT == "PLACEHOLDER_SUTTA_COUNT"
PLACEHOLDER_DATE_RANGE == "PLACEHOLDER_DATE_RANGE"

Tokens == {PLACEHOLDER_DATA, PLACEHOLDER_VIDEO_COUNT, PLACEHOLDER_TOPIC_COUNT,
           PLACEHOLDER_SUTTA_COUNT, PLACEHOLDER_DATE_RANGE}

(***************************************************************************)
(* JSON values.  An object is a function from its keys; a string is text;  *)
(* null is the sentinel Null; a list is a sequence.                        *)
(***************************************************************************)
Null == <<"<null>">>

Has(v, k) == k \in DOMAIN v
\* dict.get(k, default)
Get(v, k, default) == IF Has(v, k) THEN v[k] ELSE default
\* truthiness of a string-or-null value
Truthy(x) == x # Null /\ x # <<>>
\* x or ''
OrEmpty(x) == IF Truthy(x) THEN x ELSE <<>>

(***************************************************************************)
(* Step 2: compaction (lines 50-66).                                       *)
(***************************************************************************)
CompactSutta(s) ==
    [id |-> s["sutta_id"],
     url |-> Get(s, "url", <<>>),
     l |-> OrEmpty(Get(s, "label", <<>>))]

CompactOther(r) ==
    [type |-> Get(r, "type", <<>>),
     label |-> Get(r, "label", <<>>),
     url |-> Get(r, "url", <<>>)]

CompactRelated(r) == [t |-> r["title"], u |-> r["url"]]

CompactRecord(v) ==
    LET srs == Get(v, "sutta_refs", <<>>)
        ors == Get(v, "other_refs", <<>>)
        rvs == Get(v, "related_videos", <<>>)
    IN [t |-> v["title"],
        d |-> Get(v, "date", <<>>),
        u |-> v["youtube_url"],
        s |-> Get(v, "summary", <<>>),
        tp |-> Get(v, "topics", <<>>),
        sr |-> [i \in 1..Len(srs) |-> CompactSutta(srs[i])],
        or |-> [i \in 1..Len(ors) |-> CompactOther(ors[i])],
        rv |-> [i \in 1..Len(rvs) |-> CompactRelated(rvs[i])]]

\* The key whose subscript raises KeyError while record v is compacted, in
\* the order Python evaluates the dict display; "" when none does.
MissingKey(v) ==
    LET srs == Get(v, "sutta_refs", <<>>)
        rvs == Get(v, "related_videos", <<>>)
        badRv == {j \in 1..Len(rvs) : ~Has(rvs[j], "title") \/ ~Has(rvs[j], "url")}
    IN IF ~Has(v, "title") THEN "title"
       ELSE IF ~Has(v, "youtube_url") THEN "youtube_url"
       ELSE IF \E j \in 1..Len(srs) : ~Has(srs[j], "sutta_id") THEN "sutta_id"
       ELSE IF badRv # {}
            THEN LET j == CHOOSE k \in badRv : \A m \in badRv : k <= m
                 IN IF ~Has(rvs[j], "title") THEN "title" ELSE "url"
       ELSE ""

CompactFails(d) == \E i \in 1..Len(d) : MissingKey(d[i]) # ""

FirstMissingKey(d) ==
    LET bad == {i \in 1..Len(d) : MissingKey(d[i]) # ""}
    IN MissingKey(d[CHOOSE i \in bad : \A j \in bad : i <= j])

\* faulty variant: the compact list is built back to front
CompactAllReversed(d) == [i \in 1..Len(d) |-> CompactRecord(d[Len(d) + 1 - i])]

CompactAll(d) == [i \in 1..Len(d) |-> CompactRecord(d[i])]

(***************************************************************************)
(* json.dumps(compact, separators=(',', ':'), ensure_ascii=False)          *)
(* (line 66).                                                              *)
(***************************************************************************)
Escape(c) ==
    IF c = "\"" THEN <<"\\", "\"">>
    ELSE IF c = "\\" THEN <<"\\", "\\">>
    ELSE <<c>>

JsonStr(x) ==
    IF x = Null THEN <<"null">>
    ELSE <<"\"">> \o Join([i \in 1..Len(x) |-> Escape(x[i])], <<>>) \o <<"\"">>

JsonList(items) == <<"[">> \o Join(items, <<",">>) \o <<"]">>

\* "key":value, the key name being one symbol
KV(k, enc) == <<"\"", k, "\"", ":">> \o enc

JsonObj(members) == <<"{">> \o Join(members, <<",">>) \o <<"}">>

JsonSutta(s) ==
    JsonObj(<<KV("id", JsonStr(s.id)), KV("url", JsonStr(s.url)), KV("l", JsonStr(s.l))>>)

JsonOther(r) ==
    JsonObj(<<KV("type", JsonStr(r.type)), KV("label", JsonStr(r.label)),
              KV("url", JsonStr(r.url))>>)

JsonRelated(r) == JsonObj(<<KV("t", JsonStr(r.t)), KV("u", JsonStr(r.u))>>)

JsonRecord(c) ==
    JsonObj(<<KV("t", JsonStr(c.t)),
              KV("d", JsonStr(c.d)),
              KV("u", JsonStr(c.u)),
              KV("s", JsonStr(c.s)),
              KV("tp", JsonList([i \in 1..Len(c.tp) |-> JsonStr(c.tp[i])])),
              KV("sr", JsonList([i \in 1..Len(c.sr) |-> JsonSutta(c.sr[i])])),
              KV("or", JsonList([i \in 1..Len(c.or) |-> JsonOther(c.or[i])])),
              KV("rv", JsonList([i \in 1..Len(c.rv) |-> JsonRelated(c.rv[i])]))>>)

JsonDumps(cs) == JsonList([i \in 1..Len(cs) |-> JsonRecord(cs[i])])

(***************************************************************************)
(* Step 3: the two sets, filled by the loops of lines 71-77.               *)
(***************************************************************************)
\* faulty variant: only the first topic of a record is added
AddTopicsFirstOnly(set, ts) == IF ts = <<>> THEN set ELSE set \cup {Head(ts)}

RECURSIVE AddTopics(_, _)
AddTopics(set, ts) ==
    IF ts = <<>> THEN set ELSE AddTopics(set \cup {Head(ts)}, Tail(ts))

RECURSIVE AddSuttas(_, _)
AddSuttas(set, srs) ==
    IF srs = <<>> THEN set ELSE AddSuttas(set \cup {Head(srs)["sutta_id"]}, Tail(srs))

RECURSIVE CountStats(_, _, _)
CountStats(topics, suttas, d) ==
    IF d = <<>> THEN [topics |-> topics, suttas |-> suttas]
    ELSE CountStats(AddTopics(topics, Get(Head(d), "topics", <<>>)),
                    AddSuttas(suttas, Get(Head(d), "sutta_refs", <<>>)),
                    Tail(d))

(***************************************************************************)
(* Date range (lines 94-100).                                              *)
(***************************************************************************)
\* code points of the characters that occur in the dates explored
CodePoint ==
    [c \in {"-", "/", "0", "1", "2", "3", "4", "5", "6", "7", "8", "9"} |->
        CASE c = "-" -> 45 [] c = "/" -> 47 [] c = "0" -> 48 [] c = "1" -> 49
          [] c = "2" -> 50 [] c = "3" -> 51 [] c = "4" -> 52 [] c = "5" -> 53
          [] c = "6" -> 54 [] c = "7" -> 55 [] c = "8" -> 56 [] c = "9" -> 57]

\* a < b for Python strings: lexicographic by code point
StrLess(a, b) ==
    \E i \in 1..(Len(b)) :
        /\ i <= Len(a) + 1
        /\ \A k \in 1..(i - 1) : a[k] = b[k]
        /\ \/ i = Len(a) + 1
           \/ CodePoint[a[i]] < CodePoint[b[i]]

RECURSIVE Insert(_, _)
Insert(x, s) ==
    IF s = <<>> THEN <<x>>
    ELSE IF StrLess(x, Head(s)) THEN <<x>> \o s
    ELSE <<Head(s)>> \o Insert(x, Tail(s))

\* faulty variant: the list is used as collected, without sorting
Unsorted(s) == s

\* sorted(list of strings)
RECURSIVE Sorted(_)
Sorted(s) ==
    IF s = <<>> THEN <<>>
    ELSE Insert(s[Len(s)], Sorted(SubSeq(s, 1, Len(s) - 1)))

RECURSIVE DateList(_)
\* [v['date'] for v in data if v.get('date')]
DateList(d) ==
    IF d = <<>> THEN <<>>
    ELSE (IF Truthy(Get(Head(d), "date", Null)) THEN <<Head(d)["date"]>> ELSE <<>>)
         \o DateList(Tail(d))

IsDigit(c) == c \in {Digit[i] : i \in 1..10}
DigitVal(c) == (CHOOSE i \in 1..10 : Digit[i] = c) - 1

RECURSIVE IntOf(_)
IntOf(s) == IF s = <<>> THEN 0 ELSE 10 * IntOf(SubSeq(s, 1, Len(s) - 1)) + DigitVal(s[Len(s)])

AllDigits(s) == \A i \in 1..Len(s) : IsDigit(s[i])

IsLeap(y) == (y % 4 = 0 /\ y % 100 # 0) \/ y % 400 = 0

DaysIn(y, m) ==
    IF m = 2 THEN (IF IsLeap(y) THEN 29 ELSE 28)
    ELSE IF m \in {4, 6, 9, 11} THEN 30 ELSE 31

\* datetime.strptime(s, '%Y-%m-%d'): four digits, one or two digits, one or
\* two digits, and a date that exists; ok = FALSE stands for ValueError.
StrpTime(s) ==
    LET dash == {p \in {7, 8} : p < Len(s) /\ s[p] = "-" /\ Len(s) - p \in {1, 2}}
    IN IF /\ Len(s) >= 8
          /\ AllDigits(SubSeq(s, 1, 4))
          /\ s[5] = "-"
          /\ \E p \in dash : AllDigits(SubSeq(s, 6, p - 1)) /\ AllDigits(SubSeq(s, p + 1, Len(s)))
       THEN LET p == CHOOSE q \in dash : AllDigits(SubSeq(s, 6, q - 1))
                y == IntOf(SubSeq(s, 1, 4))
                m == IntOf(SubSeq(s, 6, p - 1))
                d == IntOf(SubSeq(s, p + 1, Len(s)))
            IN [ok |-> y >= 1 /\ m \in 1..12 /\ d >= 1 /\ d <= DaysIn(y, m),
                year |-> y, month |-> m, day |-> d]
       ELSE [ok |-> FALSE, year |-> 0, month |-> 0, day |-> 0]

MonthName == <<"January", "February", "March", "April", "May", "June", "July",
               "August", "September", "October", "November", "December">>

\* .strftime('%B %Y') (years of four digits)
StrfTime(t) == <<MonthName[t.month], " ">> \o Str(t.year)

\* the en dash of line 100
EnDash == "--"

DateRange(first, last) == first \o <<" ", EnDash, " ">> \o last

(***************************************************************************)
(* Inputs explored: records of the data file.                              *)
(***************************************************************************)
Date2021 == <<"2", "0", "2", "1", "-", "0", "3", "-", "0", "5">>
Date2019 == <<"2", "0", "1", "9", "-", "1", "1", "-", "0", "2">>
Date2020 == <<"2", "0", "2", "0", "-", "0", "1", "-", "0", "1">>
DateMonth13 == <<"2", "0", "2", "0", "-", "1", "3", "-", "0", "1">>

RecFull ==
    [title |-> <<"A">>, date |-> Date2021, youtube_url |-> <<"u">>,
     summary |-> <<"s", "\"", "\\">>,
     topics |-> << <<"m">>, <<"m">>, <<"k">> >>,
     sutta_refs |-> << [sutta_id |-> <<"M", "N">>, url |-> <<"w">>, label |-> Null],
                       [sutta_id |-> <<"S", "N">>, label |-> <<"l">>] >>,
     other_refs |-> << [type |-> <<"b">>, label |-> Null] >>,
     related_videos |-> << [title |-> <<"R">>, url |-> <<"v">>] >>]

Rec2019 ==
    [title |-> <<"B">>, date |-> Date2019, youtube_url |-> <<"u">>,
     topics |-> << <<"k">> >>,
     sutta_refs |-> << [sutta_id |-> <<"M", "N">>] >>]

Rec2020 ==
    [title |-> <<"C">>, date |-> Date2020, youtube_url |-> <<"u">>,
     topics |-> << <<"j">> >>]

RecNoDate == [title |-> <<"D">>, youtube_url |-> <<"u">>]

RecEmptyDate ==
    [title |-> <<"E">>, date |-> <<>>, youtube_url |-> <<"u">>, topics |-> << <<"m">> >>]

\* a title that contains the text of a placeholder token
RecToken == [title |-> <<"T", PLACEHOLDER_VIDEO_COUNT>>, youtube_url |-> <<"u">>]

RecBadDate == [title |-> <<"F">>, date |-> DateMonth13, youtube_url |-> <<"u">>]

RecNoTitle == [date |-> Date2019, youtube_url |-> <<"u">>]

RecNoUrl == [title |-> <<"G">>, topics |-> << <<"m">> >>]

RecNoSuttaId ==
    [title |-> <<"H">>, youtube_url |-> <<"u">>,
     sutta_refs |-> << [sutta_id |-> <<"M", "N">>], [url |-> <<"w">>] >>]

RecRvNoTitle ==
    [title |-> <<"I">>, youtube_url |-> <<"u">>,
     related_videos |-> << [url |-> <<"v">>] >>]

RecRvNoUrl ==
    [title |-> <<"J">>, youtube_url |-> <<"u">>,
     related_videos |-> << [title |-> <<"R">>, url |-> <<"v">>], [title |-> <<"R">>] >>]

Pool == <<RecFull, Rec2019, Rec2020, RecNoDate, RecEmptyDate, RecToken, RecBadDate,
          RecNoTitle, RecNoUrl, RecNoSuttaId, RecRvNoTitle, RecRvNoUrl>>

\* every list of at most MaxRecords records of the pool
RecordLists ==
    {[i \in 1..Len(ix) |-> Pool[ix[i]]] :
        ix \in UNION {[1..n -> 1..Len(Pool)] : n \in 0..MaxRecords}}

\* lists explored together with every template
SampleLists ==
    {<<RecFull, Rec2019, Rec2020>>, <<RecNoDate, RecEmptyDate>>, <<RecToken>>,
     <<RecToken, Rec2019>>, <<>>}

DataMissing == [kind |-> "missing", records |-> <<>>]
DataMalformed == [kind |-> "malformed", records |-> <<>>]
DataList(rs) == [kind |-> "list", records |-> rs]

TemplateSymbols == Tokens \cup {"<", ">"}

\* every template of at most MaxTemplateLen symbols
Templates == UNION {[1..n -> TemplateSymbols] : n \in 0..MaxTemplateLen}

FullTemplate ==
    <<"<", PLACEHOLDER_DATA, ">", PLACEHOLDER_VIDEO_COUNT, PLACEHOLDER_TOPIC_COUNT,
      PLACEHOLDER_SUTTA_COUNT, PLACEHOLDER_DATE_RANGE, PLACEHOLDER_VIDEO_COUNT>>

FileAbsent == [exists |-> FALSE, text |-> <<>>]
File(text) == [exists |-> TRUE, text |-> text]
OldIndex == File(<<"o", "l", "d">>)

(***************************************************************************)
(* The script.                                                             *)
(***************************************************************************)
NoExit == -1
ExitSuccess == 0
ExitFailure == 1
Unbound == <<"<unbound>">>

\* the interpreter's memory at the start of a run
FreshMemory ==
    /\ pc = "load"
    /\ exitCode = NoExit
    /\ console = <<>>
    /\ data = <<>>
    /\ compact = <<>>
    /\ compact_json = <<>>
    /\ all_topics = {}
    /\ all_suttas = {}
    /\ html = <<>>
    /\ dates = <<>>
    /\ earliest = Unbound
    /\ latest = Unbound

Init ==
    /\ \/ /\ dataFile \in {DataList(rs) : rs \in RecordLists} \cup {DataMissing, DataMalformed}
          /\ templateFile \in {File(FullTemplate), FileAbsent}
          /\ indexFile = OldIndex
       \/ /\ dataFile \in {DataList(rs) : rs \in SampleLists} \cup {DataMissing, DataMalformed}
          /\ templateFile \in {File(t) : t \in Templates} \cup {FileAbsent}
          /\ indexFile \in {FileAbsent, OldIndex}
    /\ FreshMemory
    /\ runs = 1
    /\ indexAtStart = indexFile
    /\ written = FALSE
    /\ prevOut = [written |-> FALSE, text |-> <<>>]

\* sys.exit(1) after the lines printed
Exit1(lines) ==
    /\ console' = console \o lines
    /\ exitCode' = ExitFailure
    /\ pc' = "exit"

\* an exception nothing catches: traceback, exit status 1
Uncaught(exc) ==
    /\ console' = console \o <<"Traceback">> \o exc
    /\ exitCode' = ExitFailure
    /\ pc' = "exit"

\* faulty variant: a missing data file is treated as an empty list and the run goes on
LoadMissingContinues ==
    /\ pc = "load"
    /\ \/ /\ dataFile.kind = "list"
          /\ data' = dataFile.records
          /\ console' = Append(console, "Loaded videos")
          /\ pc' = "compact"
          /\ UNCHANGED exitCode
       \/ /\ dataFile.kind = "missing"
          /\ data' = <<>>
          /\ console' = Append(console, "ERROR: dougs_dharma_index.json not found!")
          /\ pc' = "compact"
          /\ UNCHANGED exitCode
       \/ /\ dataFile.kind = "malformed"
          /\ Exit1(<<"ERROR: dougs_dharma_index.json has a formatting error!",
                     "Common causes", "The error is near the line number shown above.">>)
          /\ UNCHANGED data
    /\ UNCHANGED <<dataFile, templateFile, indexFile, compact, compact_json, all_topics,
                   all_suttas, html, dates, earliest, latest, runs, indexAtStart,
                   written, prevOut>>

\* Step 1: read the data (lines 29-48)
Load ==
    /\ pc = "load"
    /\ \/ /\ dataFile.kind = "list"
          /\ data' = dataFile.records
          /\ console' = Append(console, "Loaded videos")
          /\ pc' = "compact"
          /\ UNCHANGED exitCode
       \/ /\ dataFile.kind = "missing"
          /\ Exit1(<<"ERROR: dougs_dharma_index.json not found!",
                     "Make sure this file is in the same folder as build.py">>)
          /\ UNCHANGED data
       \/ /\ dataFile.kind = "malformed"
          /\ Exit1(<<"ERROR: dougs_dharma_index.json has a formatting error!",
                     "Common causes", "The error is near the line number shown above.">>)
          /\ UNCHANGED data
    /\ UNCHANGED <<dataFile, templateFile, indexFile, compact, compact_json, all_topics,
                   all_suttas, html, dates, earliest, latest, runs, indexAtStart,
                   written, prevOut>>

\* faulty variant: a record with a missing key is skipped and the build goes on
CompactSkipsBadRecords ==
    /\ pc = "compact"
    /\ data' = SelectSeq(data, LAMBDA v : MissingKey(v) = "")
    /\ compact' = CompactAll(data')
    /\ compact_json' = JsonDumps(compact')
    /\ console' = Append(console, "Compacted data")
    /\ pc' = "stats"
    /\ UNCHANGED <<dataFile, templateFile, indexFile, exitCode, all_topics, all_suttas,
                   html, dates, earliest, latest, runs, indexAtStart, written, prevOut>>

\* Step 2: compact the data for embedding (lines 50-67)
Compact ==
    /\ pc = "compact"
    /\ \/ /\ ~CompactFails(data)
          /\ compact' = CompactAll(data)
          /\ compact_json' = JsonDumps(compact')
          /\ console' = Append(console, "Compacted data")
          /\ pc' = "stats"
          /\ UNCHANGED exitCode
       \/ /\ CompactFails(data)
          /\ Uncaught(<<"KeyError", FirstMissingKey(data)>>)
          /\ UNCHANGED <<compact, compact_json>>
    /\ UNCHANGED <<dataFile, templateFile, indexFile, data, all_topics, all_suttas, html,
                   dates, earliest, latest, runs, indexAtStart, written, prevOut>>

\* Step 3: count stats (lines 69-77); every s['sutta_id'] was already read in Step 2
Stats ==
    /\ pc = "stats"
    /\ LET st == CountStats({}, {}, data)
       IN /\ all_topics' = st.topics
          /\ all_suttas' = st.suttas
    /\ pc' = "template"
    /\ UNCHANGED <<dataFile, templateFile, indexFile, exitCode, console, data, compact,
                   compact_json, html, dates, earliest, latest, runs, indexAtStart,
                   written, prevOut>>

\* faulty variant: an absent template is reported and the run goes on with empty text
ReadTemplateAbsentContinues ==
    /\ pc = "template"
    /\ \/ /\ templateFile.exists
          /\ html' = templateFile.text
          /\ console' = Append(console, "Loaded template.html")
       \/ /\ ~templateFile.exists
          /\ html' = <<>>
          /\ console' = Append(console, "ERROR: template.html not found!")
    /\ pc' = "replace"
    /\ UNCHANGED <<dataFile, templateFile, indexFile, exitCode, data, compact,
                   compact_json, all_topics, all_suttas, dates, earliest, latest, runs,
                   indexAtStart, written, prevOut>>

\* Step 4: read the template (lines 79-86)
ReadTemplate ==
    /\ pc = "template"
    /\ \/ /\ templateFile.exists
          /\ html' = templateFile.text
          /\ console' = Append(console, "Loaded template.html")
          /\ pc' = "replace"
          /\ UNCHANGED exitCode
       \/ /\ ~templateFile.exists
          /\ Exit1(<<"ERROR: template.html not found!">>)
          /\ UNCHANGED html
    /\ UNCHANGED <<dataFile, templateFile, indexFile, data, compact, compact_json,
                   all_topics, all_suttas, dates, earliest, latest, runs, indexAtStart,
                   written, prevOut>>

\* the four replacements of lines 89-92, in order
ReplaceFour(text, json, nVideos, nTopics, nSuttas) ==
    LET h1 == Replace(text, PLACEHOLDER_DATA, json)
        h2 == Replace(h1, PLACEHOLDER_VIDEO_COUNT, Str(nVideos))
        h3 == Replace(h2, PLACEHOLDER_TOPIC_COUNT, Str(nTopics))
    IN Replace(h3, PLACEHOLDER_SUTTA_COUNT, Str(nSuttas))

\* Step 5: replace placeholders (lines 88-92)
ReplacePlaceholders ==
    /\ pc = "replace"
    /\ html' = ReplaceFour(html, compact_json, Len(data), Cardinality(all_topics),
                           Cardinality(all_suttas))
    /\ pc' = "dates"
    /\ UNCHANGED <<dataFile, templateFile, indexFile, exitCode, console, data, compact,
                   compact_json, all_topics, all_suttas, dates, earliest, latest, runs,
                   indexAtStart, written, prevOut>>

\* faulty variant: without dates the date-range token is replaced by the empty string
FindDateRangeBlanks ==
    /\ pc = "dates"
    /\ dates' = Sorted(DateList(data))
    /\ \/ /\ dates' = <<>>
          /\ html' = Replace(html, PLACEHOLDER_DATE_RANGE, <<>>)
          /\ pc' = "write"
          /\ UNCHANGED <<earliest, latest, exitCode, console>>
       \/ /\ dates' # <<>>
          /\ StrpTime(dates'[1]).ok /\ StrpTime(dates'[Len(dates')]).ok
          /\ earliest' = StrfTime(StrpTime(dates'[1]))
          /\ latest' = StrfTime(StrpTime(dates'[Len(dates')]))
          /\ html' = Replace(html, PLACEHOLDER_DATE_RANGE, DateRange(earliest', latest'))
          /\ pc' = "write"
          /\ UNCHANGED <<exitCode, console>>
       \/ /\ dates' # <<>>
          /\ ~(StrpTime(dates'[1]).ok /\ StrpTime(dates'[Len(dates')]).ok)
          /\ Uncaught(<<"ValueError">>)
          /\ UNCHANGED <<html, earliest, latest>>
    /\ UNCHANGED <<dataFile, templateFile, indexFile, data, compact, compact_json,
                   all_topics, all_suttas, runs, indexAtStart, written, prevOut>>

\* Find date range (lines 94-100)
FindDateRange ==
    /\ pc = "dates"
    /\ dates' = Sorted(DateList(data))
    /\ \/ /\ dates' = <<>>
          /\ pc' = "write"
          /\ UNCHANGED <<html, earliest, latest, exitCode, console>>
       \/ /\ dates' # <<>>
          /\ StrpTime(dates'[1]).ok /\ StrpTime(dates'[Len(dates')]).ok
          /\ earliest' = StrfTime(StrpTime(dates'[1]))
          /\ latest' = StrfTime(StrpTime(dates'[Len(dates')]))
          /\ html' = Replace(html, PLACEHOLDER_DATE_RANGE, DateRange(earliest', latest'))
          /\ pc' = "write"
          /\ UNCHANGED <<exitCode, console>>
       \/ /\ dates' # <<>>
          /\ ~(StrpTime(dates'[1]).ok /\ StrpTime(dates'[Len(dates')]).ok)
          /\ Uncaught(<<"ValueError">>)
          /\ UNCHANGED <<html, earliest, latest>>
    /\ UNCHANGED <<dataFile, templateFile, indexFile, data, compact, compact_json,
                   all_topics, all_suttas, runs, indexAtStart, written, prevOut>>

\* faulty variant: the file is opened for appending
WriteAppends(old, text) == File(old.text \o text)

\* open('index.html', 'w') and f.write(html): the file holds html and nothing else
WriteFile(old, text) == File(text)

\* Step 6: write the output (lines 102-104)
Write ==
    /\ pc = "write"
    /\ indexFile' = WriteFile(indexFile, html)
    /\ written' = TRUE
    /\ pc' = "report"
    /\ UNCHANGED <<dataFile, templateFile, exitCode, console, data, compact, compact_json,
                   all_topics, all_suttas, html, dates, earliest, latest, runs,
                   indexAtStart, prevOut>>

\* the final report (lines 106-114); line 110 reads earliest and latest
Report ==
    /\ pc = "report"
    /\ \/ /\ earliest # Unbound /\ latest # Unbound
          /\ console' = console \o <<"Created index.html", "Stats", "Date range", "Done!">>
          /\ exitCode' = ExitSuccess
          /\ pc' = "done"
       \/ /\ earliest = Unbound \/ latest = Unbound
          /\ console' = console \o <<"Created index.html", "Stats", "Traceback",
                                     "NameError", "earliest">>
          /\ exitCode' = ExitFailure
          /\ pc' = "exit"
    /\ UNCHANGED <<dataFile, templateFile, indexFile, data, compact, compact_json,
                   all_topics, all_suttas, html, dates, earliest, latest, runs,
                   indexAtStart, written, prevOut>>

\* python3 build.py is run again on the same files (a new process)
Rerun ==
    /\ pc \in {"done", "exit"}
    /\ runs < MaxRuns
    /\ runs' = runs + 1
    /\ pc' = "load"
    /\ exitCode' = NoExit
    /\ console' = <<>>
    /\ data' = <<>>
    /\ compact' = <<>>
    /\ compact_json' = <<>>
    /\ all_topics' = {}
    /\ all_suttas' = {}
    /\ html' = <<>>
    /\ dates' = <<>>
    /\ earliest' = Unbound
    /\ latest' = Unbound
    /\ indexAtStart' = indexFile
    /\ written' = FALSE
    /\ prevOut' = IF written THEN [written |-> TRUE, text |-> indexFile.text] ELSE prevOut
    /\ UNCHANGED <<dataFile, templateFile, indexFile>>

Next ==
    \/ Load
    \/ Compact
    \/ Stats
    \/ ReadTemplate
    \/ ReplacePlaceholders
    \/ FindDateRange
    \/ Write
    \/ Report
    \/ Rerun

Spec == Init /\ [][Next]_vars

(***************************************************************************)
(* Vocabulary of the properties, stated on the files rather than on the    *)
(* script's variables.                                                     *)
(***************************************************************************)
InputRecords == dataFile.records
Template == templateFile.text

RequiredPresent(v) ==
    /\ "title" \in DOMAIN v
    /\ "youtube_url" \in DOMAIN v
    /\ "sutta_refs" \in DOMAIN v =>
          \A j \in 1..Len(v.sutta_refs) : "sutta_id" \in DOMAIN v.sutta_refs[j]
    /\ "related_videos" \in DOMAIN v =>
          \A j \in 1..Len(v.related_videos) :
              {"title", "url"} \subseteq DOMAIN v.related_videos[j]

ValidRecords == dataFile.kind = "list" /\ \A i \in 1..Len(InputRecords) : RequiredPresent(InputRecords[i])

\* the non-empty date values of the data file
DateSet ==
    {InputRecords[i].date : i \in {k \in 1..Len(InputRecords) :
        "date" \in DOMAIN InputRecords[k] /\ InputRecords[k].date \notin {<<>>, Null}}}

TwoDigits(n) == <<Digit[(n \div 10) + 1], Digit[(n % 10) + 1]>>

\* a date of the form YYYY-MM-DD that exists
IsISODate(d) ==
    /\ Len(d) = 10
    /\ StrpTime(d).ok

DatesISO == \A d \in DateSet : IsISODate(d)

ValidInput == ValidRecords /\ DatesISO /\ templateFile.exists

MinDate == CHOOSE d \in DateSet : \A e \in DateSet : d = e \/ StrLess(d, e)
MaxDate == CHOOSE d \in DateSet : \A e \in DateSet : d = e \/ StrLess(e, d)

\* "Month YYYY" read off the characters of an ISO date
MonthYear(d) ==
    <<MonthName[CHOOSE m \in 1..12 : TwoDigits(m) = SubSeq(d, 6, 7)], " ",
      d[1], d[2], d[3], d[4]>>

DistinctTopics ==
    UNION {{InputRecords[i].topics[j] : j \in 1..Len(InputRecords[i].topics)} :
              i \in {k \in 1..Len(InputRecords) : "topics" \in DOMAIN InputRecords[k]}}

DistinctSuttaIds ==
    UNION {{InputRecords[i].sutta_refs[j].sutta_id : j \in 1..Len(InputRecords[i].sutta_refs)} :
              i \in {k \in 1..Len(InputRecords) : "sutta_refs" \in DOMAIN InputRecords[k]}}

Occurs(tok, text) == \E i \in 1..Len(text) : text[i] = tok

\* the template with every symbol that value maps replaced by its value,
\* all at once, and every other symbol kept
Substituted(text, value) ==
    Join([i \in 1..Len(text) |->
             IF text[i] \in DOMAIN value THEN value[text[i]] ELSE <<text[i]>>], <<>>)

\* the compact JSON as it stands in the page once the replacements that
\* follow its insertion have run over it
EmbeddedJson(json, value) ==
    Substituted(json, [t \in (DOMAIN value) \ {PLACEHOLDER_DATA} |-> value[t]])

CountValues(nVideos, nTopics, nSuttas) ==
    (PLACEHOLDER_VIDEO_COUNT :> Str(nVideos)) @@ (PLACEHOLDER_TOPIC_COUNT :> Str(nTopics))
        @@ (PLACEHOLDER_SUTTA_COUNT :> Str(nSuttas))

\* ended, or past the step named
PastLoad == pc # "load"
PastCompact == pc \notin {"load", "compact"}
PastTemplate == pc \notin {"load", "compact", "stats", "template"}
PastDates == pc \in {"write", "report", "done", "exit"}
PastWrite == pc \in {"report", "done", "exit"}
Untouched == ~written /\ indexFile = indexAtStart

\* the values the script holds for the three counts
HeldCounts == CountValues(Len(data), Cardinality(all_topics), Cardinality(all_suttas))

\* the date-range value, when the script computed one
HeldRange ==
    IF dates # <<>>
    THEN (PLACEHOLDER_DATE_RANGE :> DateRange(earliest, latest))
    ELSE [t \in {} |-> <<>>]

(***************************************************************************)
(* Properties.                                                             *)
(***************************************************************************)

\* C1: when the data file is missing or is not parseable JSON, the run ends
\* with exit code 1 and index.html is neither created nor modified (the
\* write step is never reached).
C1_LoadFailureExitsUntouched ==
    (dataFile.kind # "list" /\ PastLoad) =>
        /\ pc = "exit"
        /\ exitCode = ExitFailure
        /\ Untouched

C1_Witness ==
    /\ dataFile.kind = "malformed"
    /\ pc = "exit"
    /\ exitCode = ExitFailure
    /\ indexFile = OldIndex

\* C2: when the data loads and compacts but template.html is absent, the run
\* prints the error, ends with exit code 1, and index.html is neither
\* created nor modified.
C2_TemplateAbsentExitsUntouched ==
    (ValidRecords /\ ~templateFile.exists /\ PastTemplate) =>
        /\ pc = "exit"
        /\ exitCode = ExitFailure
        /\ console # <<>>
        /\ console[Len(console)] = "ERROR: template.html not found!"
        /\ Untouched

C2_Witness ==
    /\ ValidRecords
    /\ Len(InputRecords) > 0
    /\ ~templateFile.exists
    /\ pc = "exit"
    /\ compact # <<>>
    /\ indexFile = OldIndex

\* C3: when any record lacks a required field (title, youtube_url, a sutta
\* ref's sutta_id, a related video's title or url), at whatever index, the
\* build aborts with a non-zero exit and index.html is never written or
\* modified in that run.
C3_MissingFieldAbortsUntouched ==
    (dataFile.kind = "list" /\ ~ValidRecords /\ PastCompact) =>
        /\ pc = "exit"
        /\ exitCode \notin {ExitSuccess, NoExit}
        /\ Untouched

C3_Witness ==
    /\ dataFile.kind = "list"
    /\ Len(InputRecords) >= 2
    /\ RequiredPresent(InputRecords[1])
    /\ ~RequiredPresent(InputRecords[2])
    /\ templateFile.exists
    /\ pc = "exit"

\* C4: every run on valid inputs (records with all required fields, template
\* present, write succeeding) ends with exit code 0 after index.html has
\* been written, also when no record has a date.
C4_ValidRunExitsZero ==
    (ValidInput /\ pc \in {"done", "exit"}) =>
        /\ pc = "done"
        /\ exitCode = ExitSuccess
        /\ written

\* C5: for every valid input list the compact list has the length of the
\* input list and its i-th record is derived from the i-th input record
\* under the abbreviation mapping, inner orders preserved and missing
\* optional fields replaced by the empty string or the empty sequence.
C5_CompactMirrorsInput ==
    (ValidRecords /\ PastCompact) =>
        /\ Len(compact) = Len(InputRecords)
        /\ \A i \in 1..Len(InputRecords) :
              LET v == InputRecords[i]
                  c == compact[i]
                  srs == IF "sutta_refs" \in DOMAIN v THEN v.sutta_refs ELSE <<>>
                  ors == IF "other_refs" \in DOMAIN v THEN v.other_refs ELSE <<>>
                  rvs == IF "related_videos" \in DOMAIN v THEN v.related_videos ELSE <<>>
              IN /\ c.t = v.title
                 /\ c.u = v.youtube_url
                 /\ c.d = (IF "date" \in DOMAIN v THEN v.date ELSE <<>>)
                 /\ c.s = (IF "summary" \in DOMAIN v THEN v.summary ELSE <<>>)
                 /\ c.tp = (IF "topics" \in DOMAIN v THEN v.topics ELSE <<>>)
                 /\ Len(c.sr) = Len(srs)
                 /\ \A j \in 1..Len(srs) :
                       /\ c.sr[j].id = srs[j].sutta_id
                       /\ c.sr[j].url = (IF "url" \in DOMAIN srs[j] THEN srs[j].url ELSE <<>>)
                       /\ c.sr[j].l = (IF "label" \in DOMAIN srs[j] /\ srs[j].label # Null
                                       THEN srs[j].label ELSE <<>>)
                 /\ Len(c.or) = Len(ors)
                 /\ \A j \in 1..Len(ors) :
                       /\ c.or[j].type = (IF "type" \in DOMAIN ors[j] THEN ors[j].type ELSE <<>>)
                       /\ c.or[j].label = (IF "label" \in DOMAIN ors[j] THEN ors[j].label ELSE <<>>)
                       /\ c.or[j].url = (IF "url" \in DOMAIN ors[j] THEN ors[j].url ELSE <<>>)
                 /\ Len(c.rv) = Len(rvs)
                 /\ \A j \in 1..Len(rvs) :
                       c.rv[j] = [t |-> rvs[j].title, u |-> rvs[j].url]

C5_Witness ==
    /\ pc = "stats"
    /\ InputRecords = <<Rec2019, RecFull>>
    /\ compact[2].t = <<"A">>
    /\ Len(compact[2].sr) = 2
    /\ compact[1].rv = <<>>

\* C6: the value put in place of PLACEHOLDER_TOPIC_COUNT is the number of
\* distinct topic strings over all records (a repeated topic counted once),
\* and the value put in place of PLACEHOLDER_SUTTA_COUNT is the number of
\* distinct sutta_id values over all records' sutta_refs.
C6_CountsAreDistinctCounts ==
    pc = "dates" =>
        LET cv == CountValues(Len(InputRecords), Cardinality(DistinctTopics),
                              Cardinality(DistinctSuttaIds))
        IN html = Substituted(Template,
                              (PLACEHOLDER_DATA :> EmbeddedJson(compact_json, cv)) @@ cv)

C6_Witness ==
    /\ pc = "dates"
    /\ InputRecords = <<RecFull, Rec2019, Rec2020>>
    /\ Template = <<PLACEHOLDER_TOPIC_COUNT, PLACEHOLDER_SUTTA_COUNT>>
    /\ html = <<"3", "2">>

\* C7: when at least one record has a non-empty date, the date range put in
\* place of PLACEHOLDER_DATE_RANGE is built from the least and the greatest
\* non-empty date under string order, whatever the order of the records
\* (which is left as it is), each rendered as "Month YYYY".
C7_DateRangeIsMinMax ==
    (ValidInput /\ DateSet # {} /\ PastDates) =>
        LET range == DateRange(MonthYear(MinDate), MonthYear(MaxDate))
            v == HeldCounts @@ (PLACEHOLDER_DATE_RANGE :> range)
        IN /\ pc # "exit"
           /\ earliest = MonthYear(MinDate)
           /\ latest = MonthYear(MaxDate)
           /\ html = Substituted(Template,
                                 (PLACEHOLDER_DATA :> EmbeddedJson(compact_json, v)) @@ v)
           /\ data = InputRecords
           /\ \A i \in 1..Len(InputRecords) : compact[i].t = InputRecords[i].title

C7_Witness ==
    /\ pc = "done"
    /\ InputRecords = <<RecFull, Rec2019, Rec2020>>
    /\ Template = <<PLACEHOLDER_DATE_RANGE>>
    /\ indexFile.text = <<"November", " ", "2", "0", "1", "9", " ", EnDash, " ",
                          "March", " ", "2", "0", "2", "1">>

\* C8: a template may hold only some of the five tokens: every occurrence of
\* a token that is present is replaced by its value, all other text of the
\* template is in the output verbatim and in order, and nothing is inserted
\* for a token that is absent.
C8_PresentTokensReplacedByTheirValues ==
    written =>
        indexFile.text =
            Substituted(Template,
                        (PLACEHOLDER_DATA :> compact_json) @@ HeldCounts @@ HeldRange)

\* C9: two runs on the same data file and template write the same
\* index.html, whatever index.html held before.
C9_RerunWritesSameOutput ==
    (written /\ prevOut.written) => indexFile.text = prevOut.text

C9_Witness ==
    /\ runs = 2
    /\ written
    /\ prevOut.written
    /\ prevOut.text # <<>>
    /\ prevOut.text # OldIndex.text

\* C10: when no record has a non-empty date, index.html is still written,
\* every PLACEHOLDER_DATE_RANGE of the template is in it unchanged, and the
\* other four tokens are replaced as usual.
C10_NoDatesLeavesRangeToken ==
    (ValidRecords /\ templateFile.exists /\ DateSet = {} /\ PastWrite) =>
        /\ written
        /\ indexFile.exists
        /\ indexFile.text =
              Substituted(Template,
                          (PLACEHOLDER_DATA :> EmbeddedJson(compact_json, HeldCounts))
                              @@ HeldCounts)
        /\ Occurs(PLACEHOLDER_DATE_RANGE, Template) =>
              Occurs(PLACEHOLDER_DATE_RANGE, indexFile.text)

C10_Witness ==
    /\ InputRecords = <<RecNoDate, RecEmptyDate>>
    /\ Template = <<PLACEHOLDER_DATE_RANGE, PLACEHOLDER_VIDEO_COUNT>>
    /\ written
    /\ indexFile.text = <<PLACEHOLDER_DATE_RANGE, "2">>

====
